---- MODULE Spec2Model ----
(***************************************************************************)
(* Model of the PID controller of src/PID_ESP32/PID.c (the Arduino PID     *)
(* library v1.2.1 adapted to C and FreeRTOS).                              *)
(*                                                                         *)
(* A C double is modelled as an exact rational <<n, d>> in lowest terms    *)
(* with d > 0, so that the arithmetic of the code (+, -, *, /, <, >) is    *)
(* computed exactly; NaN and infinities are outside the model.             *)
(* An unsigned long is a natural number below ULONG_MOD and its arithmetic *)
(* is modular.  The width is ULONG_BITS instead of 32, so that the wrap of *)
(* millis() and of "millis() - SampleTime" is within reach of the clock.   *)
(***************************************************************************)
EXTENDS Integers, Sequences, FiniteSets, TLC

----------------------------------------------------------------------------
(* double arithmetic *)

Abs(x) == IF x < 0 THEN -x ELSE x

RECURSIVE GCD(_, _)
GCD(a, b) == IF b = 0 THEN a ELSE GCD(b, a % b)

Rat(n, d) ==
    LET s == IF d < 0 THEN -1 ELSE 1
        g == GCD(Abs(n), Abs(d))
    IN  <<(s * n) \div g, (s * d) \div g>>

D(n) == <<n, 1>>

Add(a, b) == Rat(a[1] * b[2] + b[1] * a[2], a[2] * b[2])
Sub(a, b) == Rat(a[1] * b[2] - b[1] * a[2], a[2] * b[2])
Mul(a, b) == Rat(a[1] * b[1], a[2] * b[2])
Div(a, b) == Rat(a[1] * b[2], a[2] * b[1])
Lt(a, b)  == a[1] * b[2] < b[1] * a[2]
Gt(a, b)  == Lt(b, a)
Ge(a, b)  == ~Lt(a, b)
Le(a, b)  == ~Lt(b, a)

----------------------------------------------------------------------------
(* unsigned long *)

ULONG_BITS == 8
ULONG_MOD == 2 ^ ULONG_BITS

ULong(x) == x % ULONG_MOD

----------------------------------------------------------------------------
(* the constants of PID_v1.h, as PID.c uses them *)

AUTOMATIC == 1
MANUAL == 0
DIRECT == 0
REVERSE == 1
P_ON_M == 0
P_ON_E == 1

----------------------------------------------------------------------------
(* The functions of PID.c.  p is the PID_t structure; Input, Output and    *)
(* Setpoint are the caller's cells that myInput, myOutput and mySetpoint   *)
(* point to.  A function that writes *myOutput returns the structure and   *)
(* the cell.                                                               *)

\* the pattern  if(x > hi) x = hi; else if(x < lo) x = lo;
ClampNoLower(x, lo, hi) == IF Gt(x, hi) THEN hi ELSE x

ClampNoUpper(x, lo, hi) == IF Lt(x, lo) THEN lo ELSE x

Clamp(x, lo, hi) == IF Gt(x, hi) THEN hi ELSE IF Lt(x, lo) THEN lo ELSE x

PID_SetOutputLimits_gt(p, Output, Min, Max) ==
    IF Gt(Min, Max) THEN [pid |-> p, Output |-> Output]
    ELSE LET q == [p EXCEPT !.outMin = Min, !.outMax = Max]
         IN  IF q.inAuto
             THEN [pid |-> [q EXCEPT !.outputSum = Clamp(q.outputSum, q.outMin, q.outMax)],
                   Output |-> Clamp(Output, q.outMin, q.outMax)]
             ELSE [pid |-> q, Output |-> Output]

PID_SetOutputLimits_alwaysClamp(p, Output, Min, Max) ==
    IF Ge(Min, Max) THEN [pid |-> p, Output |-> Output]
    ELSE LET q == [p EXCEPT !.outMin = Min, !.outMax = Max]
         IN  [pid |-> [q EXCEPT !.outputSum = Clamp(q.outputSum, q.outMin, q.outMax)],
              Output |-> Clamp(Output, q.outMin, q.outMax)]

PID_SetOutputLimits_noSum(p, Output, Min, Max) ==
    IF Ge(Min, Max) THEN [pid |-> p, Output |-> Output]
    ELSE LET q == [p EXCEPT !.outMin = Min, !.outMax = Max]
         IN  IF q.inAuto
             THEN [pid |-> q, Output |-> Clamp(Output, q.outMin, q.outMax)]
             ELSE [pid |-> q, Output |-> Output]

PID_SetOutputLimits(p, Output, Min, Max) ==
    IF Ge(Min, Max) THEN [pid |-> p, Output |-> Output]
    ELSE LET q == [p EXCEPT !.outMin = Min, !.outMax = Max]
         IN  IF q.inAuto
             THEN [pid |-> [q EXCEPT !.outputSum = Clamp(q.outputSum, q.outMin, q.outMax)],
                   Output |-> Clamp(Output, q.outMin, q.outMax)]
             ELSE [pid |-> q, Output |-> Output]

PID_SetControllerDirection_kpOnly(p, Direction) ==
    LET q == IF p.inAuto /\ Direction # p.controllerDirection
             THEN [p EXCEPT !.kp = Sub(D(0), p.kp)]
             ELSE p
    IN  [q EXCEPT !.controllerDirection = Direction]

PID_SetControllerDirection(p, Direction) ==
    LET q == IF p.inAuto /\ Direction # p.controllerDirection
             THEN [p EXCEPT !.kp = Sub(D(0), p.kp),
                            !.ki = Sub(D(0), p.ki),
                            !.kd = Sub(D(0), p.kd)]
             ELSE p
    IN  [q EXCEPT !.controllerDirection = Direction]

PID_SetTunings_late(p, Kp, Ki, Kd, POn) ==
    LET q0 == [p EXCEPT !.pOn = POn, !.pOnE = (POn = P_ON_E)]
    IN  IF Lt(Kp, D(0)) \/ Lt(Ki, D(0)) \/ Lt(Kd, D(0)) THEN q0
        ELSE LET SampleTimeInSec == Div(D(p.SampleTime), D(1000))
                 q == [q0 EXCEPT !.dispKp = Kp, !.dispKi = Ki, !.dispKd = Kd,
                                 !.kp = Kp,
                                 !.ki = Mul(Ki, SampleTimeInSec),
                                 !.kd = Div(Kd, SampleTimeInSec)]
             IN  IF q.controllerDirection = REVERSE
                 THEN [q EXCEPT !.kp = Sub(D(0), q.kp),
                                !.ki = Sub(D(0), q.ki),
                                !.kd = Sub(D(0), q.kd)]
                 ELSE q

PID_SetTunings_scaled(p, Kp, Ki, Kd, POn) ==
    IF Lt(Kp, D(0)) \/ Lt(Ki, D(0)) \/ Lt(Kd, D(0)) THEN p
    ELSE LET SampleTimeInSec == Div(D(p.SampleTime), D(1000))
             q == [p EXCEPT !.pOn = POn, !.pOnE = (POn = P_ON_E),
                            !.dispKp = Kp,
                            !.dispKi = Mul(Ki, SampleTimeInSec),
                            !.dispKd = Kd,
                            !.kp = Kp,
                            !.ki = Mul(Ki, SampleTimeInSec),
                            !.kd = Div(Kd, SampleTimeInSec)]
         IN  IF q.controllerDirection = REVERSE
             THEN [q EXCEPT !.kp = Sub(D(0), q.kp),
                            !.ki = Sub(D(0), q.ki),
                            !.kd = Sub(D(0), q.kd)]
             ELSE q

PID_SetTunings(p, Kp, Ki, Kd, POn) ==
    IF Lt(Kp, D(0)) \/ Lt(Ki, D(0)) \/ Lt(Kd, D(0)) THEN p
    ELSE LET SampleTimeInSec == Div(D(p.SampleTime), D(1000))
             q == [p EXCEPT !.pOn = POn, !.pOnE = (POn = P_ON_E),
                            !.dispKp = Kp, !.dispKi = Ki, !.dispKd = Kd,
                            !.kp = Kp,
                            !.ki = Mul(Ki, SampleTimeInSec),
                            !.kd = Div(Kd, SampleTimeInSec)]
         IN  IF q.controllerDirection = REVERSE
             THEN [q EXCEPT !.kp = Sub(D(0), q.kp),
                            !.ki = Sub(D(0), q.ki),
                            !.kd = Sub(D(0), q.kd)]
             ELSE q

PID_SetTunings_simple(p, Kp, Ki, Kd) == PID_SetTunings(p, Kp, Ki, Kd, p.pOn)

PID_SetSampleTime_noRescale(p, NewSampleTime) ==
    IF NewSampleTime > 0
    THEN [p EXCEPT !.SampleTime = ULong(NewSampleTime)]
    ELSE p

PID_SetSampleTime(p, NewSampleTime) ==
    IF NewSampleTime > 0
    THEN LET ratio == Div(D(NewSampleTime), D(p.SampleTime))
         IN  [p EXCEPT !.ki = Mul(p.ki, ratio),
                       !.kd = Div(p.kd, ratio),
                       !.SampleTime = ULong(NewSampleTime)]
    ELSE p

PID_Initialize_noClamp(p, Input, Output) ==
    [p EXCEPT !.outputSum = Output, !.lastInput = Input]

PID_Initialize(p, Input, Output) ==
    LET q == [p EXCEPT !.outputSum = Output, !.lastInput = Input]
    IN  [q EXCEPT !.outputSum = Clamp(q.outputSum, q.outMin, q.outMax)]

PID_SetMode_reinit(p, Input, Output, Mode) ==
    LET newAuto == (Mode = AUTOMATIC)
        q == IF newAuto THEN PID_Initialize(p, Input, Output) ELSE p
    IN  [q EXCEPT !.inAuto = newAuto]

PID_SetMode(p, Input, Output, Mode) ==
    LET newAuto == (Mode = AUTOMATIC)
        q == IF newAuto /\ ~p.inAuto THEN PID_Initialize(p, Input, Output) ELSE p
    IN  [q EXCEPT !.inAuto = newAuto]

TimeDue_signed(p, now) == now - p.lastTime >= p.SampleTime

\* unsigned long timeChange = (now - lastTime); if(timeChange >= SampleTime)
TimeDue_always(p, now) == TRUE

TimeDue(p, now) ==
    LET timeChange == ULong(now - p.lastTime)
    IN  timeChange >= p.SampleTime

\* the body of  if(timeChange >= SampleTime) { ... return true; }
ComputeDue_keepLastInput(p, Input, Setpoint, now) ==
    LET input == Input
        error == Sub(Setpoint, input)
        dInput == Sub(input, p.lastInput)
        sum1 == Add(p.outputSum, Mul(p.ki, error))
        sum2 == IF ~p.pOnE THEN Sub(sum1, Mul(p.kp, dInput)) ELSE sum1
        sum3 == Clamp(sum2, p.outMin, p.outMax)
        out0 == IF p.pOnE THEN Mul(p.kp, error) ELSE D(0)
        out1 == Add(out0, Sub(sum3, Mul(p.kd, dInput)))
        output == Clamp(out1, p.outMin, p.outMax)
    IN  [pid |-> [p EXCEPT !.outputSum = sum3, !.lastTime = now],
         Output |-> output,
         ret |-> TRUE]

ComputeDue_noAccumulate(p, Input, Setpoint, now) ==
    LET input == Input
        error == Sub(Setpoint, input)
        dInput == Sub(input, p.lastInput)
        sum1 == Mul(p.ki, error)
        sum2 == IF ~p.pOnE THEN Sub(sum1, Mul(p.kp, dInput)) ELSE sum1
        sum3 == Clamp(sum2, p.outMin, p.outMax)
        out0 == IF p.pOnE THEN Mul(p.kp, error) ELSE D(0)
        out1 == Add(out0, Sub(sum3, Mul(p.kd, dInput)))
        output == Clamp(out1, p.outMin, p.outMax)
    IN  [pid |-> [p EXCEPT !.outputSum = sum3, !.lastInput = input, !.lastTime = now],
         Output |-> output,
         ret |-> TRUE]

ComputeDue_derivativeAdded(p, Input, Setpoint, now) ==
    LET input == Input
        error == Sub(Setpoint, input)
        dInput == Sub(input, p.lastInput)
        sum1 == Add(p.outputSum, Mul(p.ki, error))
        sum2 == IF ~p.pOnE THEN Sub(sum1, Mul(p.kp, dInput)) ELSE sum1
        sum3 == Clamp(sum2, p.outMin, p.outMax)
        out0 == IF p.pOnE THEN Mul(p.kp, error) ELSE D(0)
        out1 == Add(out0, Add(sum3, Mul(p.kd, dInput)))
        output == Clamp(out1, p.outMin, p.outMax)
    IN  [pid |-> [p EXCEPT !.outputSum = sum3, !.lastInput = input, !.lastTime = now],
         Output |-> output,
         ret |-> TRUE]

ComputeDue_keepLastTime(p, Input, Setpoint, now) ==
    LET input == Input
        error == Sub(Setpoint, input)
        dInput == Sub(input, p.lastInput)
        sum1 == Add(p.outputSum, Mul(p.ki, error))
        sum2 == IF ~p.pOnE THEN Sub(sum1, Mul(p.kp, dInput)) ELSE sum1
        sum3 == Clamp(sum2, p.outMin, p.outMax)
        out0 == IF p.pOnE THEN Mul(p.kp, error) ELSE D(0)
        out1 == Add(out0, Sub(sum3, Mul(p.kd, dInput)))
        output == Clamp(out1, p.outMin, p.outMax)
    IN  [pid |-> [p EXCEPT !.outputSum = sum3, !.lastInput = input],
         Output |-> output,
         ret |-> TRUE]

ComputeDue(p, Input, Setpoint, now) ==
    LET input == Input
        error == Sub(Setpoint, input)
        dInput == Sub(input, p.lastInput)
        sum1 == Add(p.outputSum, Mul(p.ki, error))
        sum2 == IF ~p.pOnE THEN Sub(sum1, Mul(p.kp, dInput)) ELSE sum1
        sum3 == Clamp(sum2, p.outMin, p.outMax)
        out0 == IF p.pOnE THEN Mul(p.kp, error) ELSE D(0)
        out1 == Add(out0, Sub(sum3, Mul(p.kd, dInput)))
        output == Clamp(out1, p.outMin, p.outMax)
    IN  [pid |-> [p EXCEPT !.outputSum = sum3, !.lastInput = input, !.lastTime = now],
         Output |-> output,
         ret |-> TRUE]

PID_Compute_noAutoCheck(p, Input, Output, Setpoint, now) ==
    IF TimeDue(p, now) THEN ComputeDue(p, Input, Setpoint, now)
    ELSE [pid |-> p, Output |-> Output, ret |-> FALSE]

PID_Compute(p, Input, Output, Setpoint, now) ==
    IF ~p.inAuto THEN [pid |-> p, Output |-> Output, ret |-> FALSE]
    ELSE IF TimeDue(p, now) THEN ComputeDue(p, Input, Setpoint, now)
    ELSE [pid |-> p, Output |-> Output, ret |-> FALSE]

PID_GetKp(p) == p.dispKp
PID_GetKi(p) == p.dispKi
PID_GetKd(p) == p.dispKd
PID_GetMode(p) == IF p.inAuto THEN AUTOMATIC ELSE MANUAL
PID_GetDirection(p) == p.controllerDirection

PID_constructor_noBackdate(u, Output, Kp, Ki, Kd, POn, ControllerDirection, t0) ==
    LET p1 == [u EXCEPT !.inAuto = FALSE]
        p2 == PID_SetOutputLimits(p1, Output, D(0), D(255)).pid
        p3 == [p2 EXCEPT !.SampleTime = 100]
        p4 == PID_SetControllerDirection(p3, ControllerDirection)
        p5 == PID_SetTunings(p4, Kp, Ki, Kd, POn)
    IN  [p5 EXCEPT !.lastTime = ULong(t0)]

\* u is the caller's PID_t before the constructor runs, t0 the value of millis()
PID_constructor(u, Output, Kp, Ki, Kd, POn, ControllerDirection, t0) ==
    LET p1 == [u EXCEPT !.inAuto = FALSE]
        p2 == PID_SetOutputLimits(p1, Output, D(0), D(255)).pid
        p3 == [p2 EXCEPT !.SampleTime = 100]
        p4 == PID_SetControllerDirection(p3, ControllerDirection)
        p5 == PID_SetTunings(p4, Kp, Ki, Kd, POn)
    IN  [p5 EXCEPT !.lastTime = ULong(t0 - p5.SampleTime)]

----------------------------------------------------------------------------
(* What the memory of a PID_t may hold before PID_constructor runs: zeroed  *)
(* memory, or the stale contents of a stack frame.                          *)

ZeroedPID ==
    [kp |-> D(0), ki |-> D(0), kd |-> D(0),
     dispKp |-> D(0), dispKi |-> D(0), dispKd |-> D(0),
     pOn |-> 0, pOnE |-> FALSE,
     outputSum |-> D(0), lastInput |-> D(0), lastTime |-> 0, SampleTime |-> 0,
     outMin |-> D(0), outMax |-> D(0),
     controllerDirection |-> 0, inAuto |-> FALSE]

StalePID ==
    [kp |-> D(2), ki |-> D(-1), kd |-> D(1),
     dispKp |-> D(-1), dispKi |-> D(3), dispKd |-> D(0),
     pOn |-> 7, pOnE |-> TRUE,
     outputSum |-> D(300), lastInput |-> D(100), lastTime |-> 7, SampleTime |-> 3,
     outMin |-> D(9), outMax |-> D(-9),
     controllerDirection |-> 1, inAuto |-> TRUE]

----------------------------------------------------------------------------
VARIABLES
    pid,        \* the PID_t structure
    Input,      \* the cell myInput points to
    Output,     \* the cell myOutput points to
    Setpoint,   \* the cell mySetpoint points to
    tick,       \* the value millis() returns
    call,       \* the last call: its name, its arguments, what PID_Compute returned
    ctor,       \* the construction: whether the gains were accepted, and millis() then
    prev,       \* the last PID_Compute call, where the environment records it
    run         \* the computations since the last switch to automatic mode, likewise

vars == <<pid, Input, Output, Setpoint, tick, call, ctor, prev, run>>

millis == tick

GainsOk(Kp, Ki, Kd) == ~(Lt(Kp, D(0)) \/ Lt(Ki, D(0)) \/ Lt(Kd, D(0)))

\* E names the values the caller passes: see the environments below
InitOf(E) ==
    \E u \in E.Uninit, in \in E.InputVals, out \in E.OutputVals, sp \in E.SetpointVals,
       K \in E.CtorTuningArgs, POn \in E.POnArgs, Dir \in E.DirectionArgs,
       t0 \in E.StartTimes :
        /\ Input = in
        /\ Output = out
        /\ Setpoint = sp
        /\ tick = t0
        /\ pid = PID_constructor(u, out, K[1], K[2], K[3], POn, Dir, t0)
        /\ ctor = [gainsOk |-> GainsOk(K[1], K[2], K[3]), t0 |-> t0]
        /\ call = [op |-> "PID_constructor", args |-> <<>>, ret |-> FALSE]
        /\ prev = [calls |-> 0, at |-> 0, ret |-> FALSE, auto |-> FALSE, accepted |-> FALSE,
                   first |-> FALSE, okAt |-> -1]
        /\ run = [total |-> 0, n |-> 0, base |-> D(0), steady |-> FALSE]

\* the computations an environment that records runs lets PID_Compute accept
MaxCycles == 2

\* run.steady: since the last switch to automatic mode the caller has changed neither the
\* input, the setpoint nor the controller; run.n counts the computations accepted in
\* that time, run.base is outputSum at the switch, run.total counts all accepted ones
Disturbed(changed) ==
    IF run.steady /\ ~changed THEN run
    ELSE [run EXCEPT !.n = 0, !.base = D(0), !.steady = FALSE]

\* the scheduler's tick count advances; millis() wraps like any unsigned long.  An
\* environment whose clock does not wrap ends before the first wrap.
Tick(E, d) ==
    /\ E.ClockWraps \/ tick + d < ULONG_MOD
    /\ tick' = ULong(tick + d)
    /\ UNCHANGED <<pid, Input, Output, Setpoint, call, ctor, prev, run>>

\* the caller's code stores a measurement, a setpoint, or a manual output
WriteInput(v) ==
    /\ Input' = v
    /\ call' = [op |-> "WriteInput", args |-> <<>>, ret |-> FALSE]
    /\ run' = Disturbed(v # Input)
    /\ UNCHANGED <<pid, Output, Setpoint, tick, ctor, prev>>

WriteSetpoint(v) ==
    /\ Setpoint' = v
    /\ call' = [op |-> "WriteSetpoint", args |-> <<>>, ret |-> FALSE]
    /\ run' = Disturbed(v # Setpoint)
    /\ UNCHANGED <<pid, Input, Output, tick, ctor, prev>>

WriteOutput(v) ==
    /\ Output' = v
    /\ call' = [op |-> "WriteOutput", args |-> <<>>, ret |-> FALSE]
    /\ UNCHANGED <<pid, Input, Setpoint, tick, ctor, prev, run>>

\* prev: whether a call was made, the value of millis() it read, what it returned, the
\* mode it was made in, whether a call before it had returned true, whether it was the
\* first call, and the value of millis() in the last call that returned true
Compute(E) ==
    LET r == PID_Compute(pid, Input, Output, Setpoint, millis)
    IN  /\ (E.RecordRun /\ r.ret) => run.total < MaxCycles
        /\ pid' = r.pid
        /\ Output' = r.Output
        /\ call' = [op |-> "PID_Compute", args |-> <<>>, ret |-> r.ret]
        /\ prev' = IF E.RecordCompute
                   THEN [calls |-> 1, at |-> millis, ret |-> r.ret, auto |-> pid.inAuto,
                         accepted |-> prev.accepted \/ (prev.calls = 1 /\ prev.ret),
                         first |-> (prev.calls = 0),
                         okAt |-> IF r.ret THEN millis ELSE prev.okAt]
                   ELSE prev
        /\ run' = IF E.RecordRun /\ r.ret
                  THEN [run EXCEPT !.total = @ + 1, !.n = IF run.steady THEN @ + 1 ELSE @]
                  ELSE run
        /\ UNCHANGED <<Input, Setpoint, tick, ctor>>

SetTunings(Kp, Ki, Kd, POn) ==
    /\ pid' = PID_SetTunings(pid, Kp, Ki, Kd, POn)
    /\ call' = [op |-> "PID_SetTunings", args |-> <<Kp, Ki, Kd, POn>>, ret |-> FALSE]
    /\ run' = Disturbed(pid' # pid)
    /\ UNCHANGED <<Input, Output, Setpoint, tick, ctor, prev>>

SetTunings_simple(Kp, Ki, Kd) ==
    /\ pid' = PID_SetTunings_simple(pid, Kp, Ki, Kd)
    /\ call' = [op |-> "PID_SetTunings_simple", args |-> <<Kp, Ki, Kd>>, ret |-> FALSE]
    /\ run' = Disturbed(pid' # pid)
    /\ UNCHANGED <<Input, Output, Setpoint, tick, ctor, prev>>

SetSampleTime(NewSampleTime) ==
    /\ pid' = PID_SetSampleTime(pid, NewSampleTime)
    /\ call' = [op |-> "PID_SetSampleTime", args |-> <<NewSampleTime>>, ret |-> FALSE]
    /\ run' = Disturbed(pid' # pid)
    /\ UNCHANGED <<Input, Output, Setpoint, tick, ctor, prev>>

SetOutputLimits(Min, Max) ==
    LET r == PID_SetOutputLimits(pid, Output, Min, Max)
    IN  /\ pid' = r.pid
        /\ Output' = r.Output
        /\ call' = [op |-> "PID_SetOutputLimits", args |-> <<Min, Max>>, ret |-> FALSE]
        /\ run' = Disturbed(pid' # pid)
        /\ UNCHANGED <<Input, Setpoint, tick, ctor, prev>>

\* run: a switch to automatic mode starts a run at the outputSum PID_Initialize leaves
SetMode(E, Mode) ==
    /\ pid' = PID_SetMode(pid, Input, Output, Mode)
    /\ call' = [op |-> "PID_SetMode", args |-> <<Mode>>, ret |-> FALSE]
    /\ run' = IF E.RecordRun /\ pid'.inAuto /\ ~pid.inAuto
              THEN [run EXCEPT !.n = 0, !.base = pid'.outputSum, !.steady = TRUE]
              ELSE Disturbed(pid' # pid)
    /\ UNCHANGED <<Input, Output, Setpoint, tick, ctor, prev>>

SetControllerDirection(Direction) ==
    /\ pid' = PID_SetControllerDirection(pid, Direction)
    /\ call' = [op |-> "PID_SetControllerDirection", args |-> <<Direction>>, ret |-> FALSE]
    /\ run' = Disturbed(pid' # pid)
    /\ UNCHANGED <<Input, Output, Setpoint, tick, ctor, prev>>

NextOf(E) ==
    \/ \E d \in E.TickSteps : Tick(E, d)
    \/ \E v \in E.InputVals : WriteInput(v)
    \/ \E v \in E.SetpointVals : WriteSetpoint(v)
    \/ \E v \in E.OutputVals : WriteOutput(v)
    \/ Compute(E)
    \/ \E K \in E.TuningArgs, POn \in E.POnArgs : SetTunings(K[1], K[2], K[3], POn)
    \/ \E K \in E.SimpleTuningArgs : SetTunings_simple(K[1], K[2], K[3])
    \/ \E T \in E.SampleTimeArgs : SetSampleTime(T)
    \/ \E L \in E.LimitArgs : SetOutputLimits(L[1], L[2])
    \/ \E Mode \in E.ModeArgs : SetMode(E, Mode)
    \/ \E Direction \in E.DirectionArgs : SetControllerDirection(Direction)

----------------------------------------------------------------------------
(* The environments.  Every one calls every function of the library, with   *)
(* accepted and with rejected arguments; each varies what its claims are    *)
(* about and keeps the rest small.                                          *)

\* the output limits, the cells and the two modes
LimitsEnv ==
    [Uninit |-> {StalePID},
     InputVals |-> {D(0), D(100)},
     SetpointVals |-> {D(100)},
     OutputVals |-> {D(0), D(300)},
     CtorTuningArgs |-> {<<D(1), D(10), Rat(3, 10)>>},
     TuningArgs |-> {<<D(1), D(10), Rat(3, 10)>>,
                     <<D(-1), D(0), D(0)>>, <<D(0), D(-1), D(0)>>, <<D(1), D(10), D(-1)>>},
     SimpleTuningArgs |-> {<<D(1), D(10), Rat(3, 10)>>},
     POnArgs |-> {P_ON_M, P_ON_E},
     SampleTimeArgs |-> {-50, 0, 100},
     LimitArgs |-> {<<D(50), D(200)>>, <<D(50), D(50)>>, <<D(200), D(50)>>},
     ModeArgs |-> {MANUAL, AUTOMATIC},
     DirectionArgs |-> {DIRECT, REVERSE},
     TickSteps |-> {ULONG_MOD \div 2},
     StartTimes |-> {0},
     RecordCompute |-> FALSE,
     ClockWraps |-> TRUE,
     RecordRun |-> FALSE]

\* the gains, the direction and the sample time
TuningsEnv ==
    [Uninit |-> {ZeroedPID, StalePID},
     InputVals |-> {D(0)},
     SetpointVals |-> {D(0)},
     OutputVals |-> {D(0)},
     CtorTuningArgs |-> {<<D(1), D(0), D(0)>>, <<D(2), D(10), Rat(3, 10)>>, <<D(0), D(-1), D(0)>>},
     TuningArgs |-> {<<D(1), D(0), D(0)>>, <<D(0), D(10), D(0)>>, <<D(2), D(10), Rat(3, 10)>>,
                     <<D(-1), D(0), D(0)>>, <<D(0), D(-1), D(0)>>, <<D(1), D(10), D(-1)>>},
     SimpleTuningArgs |-> {<<D(1), D(0), D(0)>>, <<D(0), D(-1), D(0)>>},
     POnArgs |-> {P_ON_M, P_ON_E},
     SampleTimeArgs |-> {-50, 0, 50, 200},
     LimitArgs |-> {<<D(0), D(50)>>, <<D(50), D(50)>>},
     ModeArgs |-> {MANUAL, AUTOMATIC},
     DirectionArgs |-> {DIRECT, REVERSE},
     TickSteps |-> {ULONG_MOD \div 2},
     StartTimes |-> {0},
     RecordCompute |-> FALSE,
     ClockWraps |-> TRUE,
     RecordRun |-> FALSE]

\* the clock and the sample time
TimeEnv ==
    [Uninit |-> {ZeroedPID},
     InputVals |-> {D(0)},
     SetpointVals |-> {D(100)},
     OutputVals |-> {D(0)},
     CtorTuningArgs |-> {<<D(1), D(0), D(0)>>},
     TuningArgs |-> {<<D(1), D(0), D(0)>>, <<D(-1), D(0), D(0)>>},
     SimpleTuningArgs |-> {<<D(1), D(0), D(0)>>},
     POnArgs |-> {P_ON_E},
     SampleTimeArgs |-> {0, 50, 100},
     LimitArgs |-> {<<D(0), D(50)>>, <<D(50), D(50)>>},
     ModeArgs |-> {MANUAL, AUTOMATIC},
     DirectionArgs |-> {DIRECT},
     TickSteps |-> {ULONG_MOD \div 4},
     StartTimes |-> {0, ULONG_MOD \div 2},
     RecordCompute |-> TRUE,
     ClockWraps |-> TRUE,
     RecordRun |-> FALSE]

\* a run of computations with the integral gain alone: setpoint 10, Ki = 0.1
ScenarioEnv ==
    [Uninit |-> {ZeroedPID},
     InputVals |-> {D(0), D(5)},
     SetpointVals |-> {D(10)},
     OutputVals |-> {D(0), D(100)},
     CtorTuningArgs |-> {<<D(0), Rat(1, 10), D(0)>>},
     TuningArgs |-> {<<D(0), Rat(1, 10), D(0)>>},
     SimpleTuningArgs |-> {<<D(0), Rat(1, 10), D(0)>>},
     POnArgs |-> {P_ON_E},
     SampleTimeArgs |-> {100},
     LimitArgs |-> {<<D(0), D(50)>>},
     ModeArgs |-> {MANUAL, AUTOMATIC},
     DirectionArgs |-> {DIRECT, REVERSE},
     TickSteps |-> {ULONG_MOD \div 2},
     StartTimes |-> {0},
     RecordCompute |-> FALSE,
     ClockWraps |-> TRUE,
     RecordRun |-> TRUE]

\* the wrapping clock again, for what happens in the long run
FairEnv ==
    [TimeEnv EXCEPT !.StartTimes = {0},
                    !.TuningArgs = {<<D(1), D(0), D(0)>>},
                    !.SampleTimeArgs = {50, 100},
                    !.LimitArgs = {<<D(0), D(50)>>},
                    !.RecordCompute = FALSE]

\* the clock up to its first wrap
ClockEnv == [TimeEnv EXCEPT !.ClockWraps = FALSE]

Spec == InitOf(LimitsEnv) /\ [][NextOf(LimitsEnv)]_vars
SpecTunings == InitOf(TuningsEnv) /\ [][NextOf(TuningsEnv)]_vars
SpecTime == InitOf(TimeEnv) /\ [][NextOf(TimeEnv)]_vars
SpecClock == InitOf(ClockEnv) /\ [][NextOf(ClockEnv)]_vars
SpecScenario == InitOf(ScenarioEnv) /\ [][NextOf(ScenarioEnv)]_vars


----------------------------------------------------------------------------
(* Properties *)

RMin(a, b) == IF Lt(b, a) THEN b ELSE a
RMax(a, b) == IF Lt(a, b) THEN b ELSE a

\* x limited to [lo, hi], for lo <= hi
Limited(x, lo, hi) == RMax(lo, RMin(x, hi))

WithinLimits(x) == Le(pid.outMin, x) /\ Le(x, pid.outMax)

\* this step is a call of the function named op (the clock does not move in a call)
IsCall(op) == call'.op = op /\ tick' = tick

\* the last call was refused: negative gains, Min >= Max, or a sample time <= 0
Rejected ==
    \/ /\ call.op \in {"PID_SetTunings", "PID_SetTunings_simple"}
       /\ \E i \in 1..3 : Lt(call.args[i], D(0))
    \/ /\ call.op = "PID_SetOutputLimits"
       /\ Ge(call.args[1], call.args[2])
    \/ /\ call.op = "PID_SetSampleTime"
       /\ call.args[1] <= 0

(* C1: after a PID_Compute call that returned true, the output cell and     *)
(* outputSum lie in [outMin, outMax].                                       *)
C1_ComputeWithinLimits ==
    (call.op = "PID_Compute" /\ call.ret)
        => WithinLimits(Output) /\ WithinLimits(pid.outputSum)

\* a computation that ended with outputSum at the upper and the output at the lower limit
C1_Witness ==
    /\ call.op = "PID_Compute" /\ call.ret
    /\ pid.outputSum = pid.outMax
    /\ Output = pid.outMin

(* C2, as claimed: after an accepted PID_SetOutputLimits(Min, Max), in      *)
(* manual or automatic mode, the output cell and outputSum lie in           *)
(* [Min, Max].                                                              *)
C2_Original ==
    (call.op = "PID_SetOutputLimits" /\ ~Rejected)
        => /\ pid.outMin = call.args[1] /\ pid.outMax = call.args[2]
           /\ WithinLimits(Output) /\ WithinLimits(pid.outputSum)

(* C2, amended: after an accepted PID_SetOutputLimits(Min, Max) made in     *)
(* automatic mode, the output cell and outputSum lie in [Min, Max]; in      *)
(* either mode the limits are Min and Max.                                  *)
C2_LimitChangeWithinLimits ==
    (call.op = "PID_SetOutputLimits" /\ ~Rejected)
        => /\ pid.outMin = call.args[1] /\ pid.outMax = call.args[2]
           /\ pid.inAuto => WithinLimits(Output) /\ WithinLimits(pid.outputSum)

\* limits narrowed in automatic mode, with both values brought to a limit
C2_Witness ==
    /\ call.op = "PID_SetOutputLimits" /\ ~Rejected
    /\ pid.inAuto
    /\ Output = pid.outMin
    /\ pid.outputSum = pid.outMax

(* C3: outMin < outMax in every state after PID_constructor.                *)
C3_LimitsOrdered == Lt(pid.outMin, pid.outMax)

\* a request with Min = Max has been made
C3_Witness ==
    /\ call.op = "PID_SetOutputLimits"
    /\ call.args[1] = call.args[2]
    /\ pid.inAuto

(* C4: a rejected PID_SetTunings, PID_SetOutputLimits or PID_SetSampleTime  *)
(* call leaves the structure and the three cells unchanged.                 *)
C4_RejectedCallsChangeNothing ==
    [][Rejected' => UNCHANGED <<pid, Input, Output, Setpoint>>]_vars

\* negative gains were refused together with a proportional mode that differs from pOn
C4_Witness ==
    /\ call.op = "PID_SetTunings" /\ Rejected
    /\ call.args[4] # pid.pOn
    /\ pid.inAuto

(* C5: in manual mode PID_Compute returns false and changes neither the     *)
(* output cell nor the structure (outputSum, lastInput, lastTime).          *)
C5_ManualComputeNoEffect ==
    [][(IsCall("PID_Compute") /\ ~pid.inAuto)
          => ~call'.ret /\ UNCHANGED <<pid, Input, Output, Setpoint>>]_vars

\* PID_Compute was called in manual mode when the sample time had elapsed
C5_Witness ==
    /\ call.op = "PID_Compute" /\ ~call.ret
    /\ ~pid.inAuto
    /\ TimeDue(pid, tick)
    /\ ~WithinLimits(Output)

\* what PID_Compute computes as the time since lastTime
Elapsed == ULong(tick - pid.lastTime)

(* C6, as claimed: in automatic mode a PID_Compute call made less than      *)
(* SampleTime after lastTime returns false and changes nothing; and of any  *)
(* two PID_Compute calls in automatic mode that lie less than SampleTime    *)
(* apart, the second returns false and does not change the output.          *)
C6_Original ==
    [][(IsCall("PID_Compute") /\ pid.inAuto)
          => /\ Elapsed < pid.SampleTime
                  => ~call'.ret /\ UNCHANGED <<pid, Input, Output, Setpoint>>
             /\ (prev.calls = 1 /\ prev.auto /\ ULong(tick - prev.at) < pid.SampleTime)
                  => ~call'.ret /\ Output' = Output]_vars

(* C6, amended: in automatic mode a PID_Compute call made less than         *)
(* SampleTime after lastTime returns false and changes nothing; and of two  *)
(* PID_Compute calls that lie less than SampleTime apart, the first of      *)
(* which returned true, the second returns false and does not change the    *)
(* output.                                                                  *)
C6_TimeGate ==
    [][IsCall("PID_Compute")
          => /\ (pid.inAuto /\ Elapsed < pid.SampleTime)
                  => ~call'.ret /\ UNCHANGED <<pid, Input, Output, Setpoint>>
             /\ (prev.calls = 1 /\ prev.ret /\ ULong(tick - prev.at) < pid.SampleTime)
                  => ~call'.ret /\ Output' = Output]_vars

\* a call in automatic mode that came after an accepted one, later but too early
C6_Witness ==
    /\ call.op = "PID_Compute" /\ ~call.ret
    /\ prev.auto /\ prev.accepted
    /\ prev.at = tick
    /\ Elapsed > 0 /\ Elapsed < pid.SampleTime
    /\ Setpoint # Input

(* C7: PID_SetMode(AUTOMATIC) called in manual mode sets outputSum to the   *)
(* output cell's value limited to [outMin, outMax] and lastInput to the     *)
(* input cell's value, sets inAuto, and leaves the output cell and lastTime *)
(* unchanged.                                                               *)
C7_BumplessTransfer ==
    [][(IsCall("PID_SetMode") /\ call'.args[1] = AUTOMATIC /\ ~pid.inAuto)
          => /\ pid'.outputSum = Limited(Output, pid.outMin, pid.outMax)
             /\ pid'.lastInput = Input
             /\ pid'.inAuto
             /\ pid'.lastTime = pid.lastTime
             /\ UNCHANGED <<Input, Output, Setpoint>>]_vars

\* the switch to automatic found the output cell above the limits
C7_Witness ==
    /\ call.op = "PID_SetMode" /\ call.args[1] = AUTOMATIC
    /\ pid.inAuto
    /\ Gt(Output, pid.outMax)
    /\ pid.outputSum = pid.outMax
    /\ pid.lastInput = Input

(* C8: PID_SetMode with the mode the controller is already in changes       *)
(* nothing: outputSum and lastInput are not initialized again.              *)
C8_SetModeIdempotent ==
    [][(IsCall("PID_SetMode") /\ (pid.inAuto <=> call'.args[1] = AUTOMATIC))
          => UNCHANGED <<pid, Input, Output, Setpoint>>]_vars

\* PID_SetMode(AUTOMATIC) in automatic mode, the cells no longer what Initialize would store
C8_Witness ==
    /\ call.op = "PID_SetMode" /\ call.args[1] = AUTOMATIC
    /\ pid.inAuto
    /\ pid.lastInput # Input
    /\ pid.outputSum # Limited(Output, pid.outMin, pid.outMax)

(* C9: after a construction with non-negative gains, kp = dispKp and        *)
(* ki, kd >= 0 while controllerDirection is DIRECT, and kp = -dispKp and    *)
(* ki, kd <= 0 while it is REVERSE.                                         *)
C9_GainSignFollowsDirection ==
    ctor.gainsOk =>
        /\ pid.controllerDirection = DIRECT
              => pid.kp = pid.dispKp /\ Ge(pid.ki, D(0)) /\ Ge(pid.kd, D(0))
        /\ pid.controllerDirection = REVERSE
              => pid.kp = Sub(D(0), pid.dispKp) /\ Le(pid.ki, D(0)) /\ Le(pid.kd, D(0))

(* C10: after an accepted PID_SetTunings(Kp, Ki, Kd, POn), PID_GetKp,       *)
(* PID_GetKi and PID_GetKd return Kp, Ki and Kd; PID_SetSampleTime,         *)
(* PID_SetControllerDirection, PID_SetMode and PID_Compute do not change    *)
(* what they return.                                                        *)
C10_DisplayGains ==
    [][/\ (IsCall("PID_SetTunings") /\ ~Rejected')
            => /\ PID_GetKp(pid') = call'.args[1]
               /\ PID_GetKi(pid') = call'.args[2]
               /\ PID_GetKd(pid') = call'.args[3]
       /\ (\E op \in {"PID_SetSampleTime", "PID_SetControllerDirection",
                      "PID_SetMode", "PID_Compute"} : IsCall(op))
            => /\ PID_GetKp(pid') = PID_GetKp(pid)
               /\ PID_GetKi(pid') = PID_GetKi(pid)
               /\ PID_GetKd(pid') = PID_GetKd(pid)]_vars

\* gains set in reverse direction and automatic mode: the active ones differ from those shown
C10_Witness ==
    /\ call.op = "PID_SetTunings" /\ ~Rejected
    /\ pid.controllerDirection = REVERSE
    /\ pid.inAuto
    /\ PID_GetKi(pid) = call.args[2]
    /\ pid.ki # PID_GetKi(pid)
    /\ pid.kd # PID_GetKd(pid)
    /\ pid.kp # PID_GetKp(pid)

Neg(x) == Sub(D(0), x)

(* C11: in automatic mode PID_SetControllerDirection with a direction other *)
(* than the current one replaces kp, ki and kd by their negations and       *)
(* leaves dispKp, dispKi and dispKd as they are; with the current direction *)
(* it changes nothing; in every mode controllerDirection is the requested   *)
(* direction afterwards.                                                    *)
C11_DirectionChange ==
    [][IsCall("PID_SetControllerDirection")
          => /\ pid'.controllerDirection = call'.args[1]
             /\ (pid.inAuto /\ call'.args[1] # pid.controllerDirection)
                   => /\ pid'.kp = Neg(pid.kp)
                      /\ pid'.ki = Neg(pid.ki)
                      /\ pid'.kd = Neg(pid.kd)
                      /\ pid'.dispKp = pid.dispKp
                      /\ pid'.dispKi = pid.dispKi
                      /\ pid'.dispKd = pid.dispKd
             /\ (pid.inAuto /\ call'.args[1] = pid.controllerDirection)
                   => UNCHANGED <<pid, Input, Output, Setpoint>>]_vars

\* a change to REVERSE made in automatic mode: all three active gains are negative, those
\* shown are not
C11_Witness ==
    /\ call.op = "PID_SetControllerDirection"
    /\ call.args[1] = REVERSE
    /\ pid.inAuto
    /\ pid.controllerDirection = REVERSE
    /\ Lt(pid.kp, D(0)) /\ Lt(pid.ki, D(0)) /\ Lt(pid.kd, D(0))
    /\ pid.kp = Neg(pid.dispKp) /\ Gt(pid.dispKi, D(0)) /\ Gt(pid.dispKd, D(0))

\* a PID_Compute call that returned true
AcceptedCompute == IsCall("PID_Compute") /\ call'.ret

\* a PID_SetMode(AUTOMATIC) call made in manual mode, the one that runs PID_Initialize
SwitchToAutomatic == IsCall("PID_SetMode") /\ call'.args[1] = AUTOMATIC /\ ~pid.inAuto

\* C12 as stated: only a PID_Compute call that returns true modifies lastTime or lastInput,
\* and it sets lastInput to the input read and lastTime to the clock value read
C12_Original ==
    [][/\ (pid'.lastTime # pid.lastTime \/ pid'.lastInput # pid.lastInput) => AcceptedCompute
       /\ AcceptedCompute => pid'.lastInput = Input /\ pid'.lastTime = millis]_vars

(* C12: lastTime is modified only by a PID_Compute call that returns true;  *)
(* lastInput only by such a call and by a PID_SetMode(AUTOMATIC) call made  *)
(* in manual mode, which sets it to the input and leaves lastTime alone.    *)
(* A PID_Compute call that returns true sets lastInput to the input it read *)
(* and lastTime to the clock value it read.                                 *)
C12_LastTimeLastInputFrame ==
    [][/\ pid'.lastTime # pid.lastTime => AcceptedCompute
       /\ pid'.lastInput # pid.lastInput => AcceptedCompute \/ SwitchToAutomatic
       /\ SwitchToAutomatic => pid'.lastInput = Input /\ pid'.lastTime = pid.lastTime
       /\ AcceptedCompute => pid'.lastInput = Input /\ pid'.lastTime = millis]_vars

\* an accepted computation has just replaced a different lastInput and a different lastTime
C12_Witness ==
    /\ call.op = "PID_Compute" /\ call.ret
    /\ pid.lastTime = millis
    /\ pid.lastTime # ULong(ctor.t0 - 100)
    /\ pid.lastInput = Input
    /\ Input = D(100)

\* the sample period PID_constructor sets
DefaultSampleTime == 100

\* the first PID_Compute call since construction, made in automatic mode with the
\* constructor's sample period, on a clock that has not wrapped since construction
FirstCompute ==
    /\ IsCall("PID_Compute")
    /\ prev.calls = 0
    /\ pid.inAuto
    /\ pid.SampleTime = DefaultSampleTime
    /\ millis >= ctor.t0

\* C13 as stated: the first PID_Compute call after construction at t0 and
\* PID_SetMode(AUTOMATIC) returns true at any clock value >= t0
C13_Original ==
    [][FirstCompute => call'.ret]_vars

(* C13: after PID_constructor at any clock value t0, also one below the     *)
(* sample period of 100 (where millis() - SampleTime wraps), and            *)
(* PID_SetMode(AUTOMATIC), the first PID_Compute call, at any clock value   *)
(* now >= t0 with now - t0 + 100 below the clock's modulus, returns true    *)
(* and performs the computation, however little time has passed.            *)
C13_FirstComputeDue ==
    [][(FirstCompute /\ millis - ctor.t0 + DefaultSampleTime < ULONG_MOD)
          => /\ call'.ret
             /\ pid'.lastTime = millis
             /\ pid'.lastInput = Input]_vars

\* constructed at clock value 0, so that lastTime wrapped; the first call, made at clock
\* value 0 too, returned true
C13_Witness ==
    /\ call.op = "PID_Compute" /\ call.ret
    /\ prev.first
    /\ ctor.t0 = 0
    /\ prev.at = 0
    /\ pid.lastTime = 0

\* Ki * (SampleTime / 1000), from the gain PID_GetKi shows
ScaledKi == Mul(PID_GetKi(pid), Div(D(pid.SampleTime), D(1000)))

\* a run of accepted computations in automatic mode and P_ON_E with the input, the
\* setpoint and the controller held constant, in which outputSum has not reached a limit
SteadyRun ==
    /\ run.steady
    /\ pid.inAuto
    /\ pid.pOnE
    /\ Lt(pid.outMin, pid.outputSum) /\ Lt(pid.outputSum, pid.outMax)

\* C15 as stated: after n accepted computations outputSum is its value at the switch to
\* automatic mode plus n * Ki * (SampleTime / 1000) * (setpoint - input)
C15_Original ==
    SteadyRun
       => pid.outputSum = Add(run.base, Mul(D(run.n), Mul(ScaledKi, Sub(Setpoint, Input))))

(* C15: the integral accumulator persists across accepted computations and *)
(* uses the gain scaled by the sample period: with input and setpoint held  *)
(* constant, P_ON_E and no limit reached, after n consecutive accepted      *)
(* PID_Compute calls outputSum is its value at the switch to automatic mode *)
(* plus n * ki * (setpoint - input), where the active gain ki is            *)
(* Ki * (SampleTime / 1000), negated when the active gains are negative     *)
(* (reverse action).  n counts the calls that returned true only: those     *)
(* that return false add nothing.                                           *)
C15_IntegralAccumulates ==
    SteadyRun
       => /\ pid.outputSum = Add(run.base, Mul(D(run.n), Mul(pid.ki, Sub(Setpoint, Input))))
          /\ pid.ki = IF Lt(pid.ki, D(0)) THEN Neg(ScaledKi) ELSE ScaledKi

\* Ki = 0.1, SampleTime = 100, setpoint 10, input 0, accumulator 0 at the switch: 0.2 after
\* the second accepted computation
C15_Witness ==
    /\ call.op = "PID_Compute" /\ call.ret
    /\ run.steady /\ run.n = 2 /\ run.base = D(0)
    /\ PID_GetKi(pid) = Rat(1, 10) /\ pid.SampleTime = 100 /\ Gt(pid.ki, D(0))
    /\ Setpoint = D(10) /\ Input = D(0)
    /\ pid.outputSum = Rat(1, 5)

\* the controller of the worked examples: constructed at clock value 0 with input 0,
\* setpoint 10, DIRECT, P_ON_E and the default limits, then set to AUTOMATIC
Example(Kp, Ki, Kd, out) ==
    PID_SetMode(PID_constructor(ZeroedPID, out, Kp, Ki, Kd, P_ON_E, DIRECT, 0),
                D(0), out, AUTOMATIC)

\* Kp = 1, Ki = 0, Kd = 0, output cell 0: the first computation returns true with output 10
C14_Example ==
    LET r == PID_Compute(Example(D(1), D(0), D(0), D(0)), D(0), D(0), D(10), 0)
    IN  r.ret /\ r.Output = D(10)

(* C14: a PID_Compute call that returns true computes, with                 *)
(* error = setpoint - input and dInput = input - lastInput,                 *)
(*   outputSum' = clamp(outputSum + ki*error - (pOnE ? 0 : kp*dInput)),     *)
(*   output' = clamp((pOnE ? kp*error : 0) + outputSum' - kd*dInput),       *)
(* both clamped to [outMin, outMax], in either proportional mode; in the    *)
(* worked example the output is 10.                                         *)
C14_ComputeStep ==
    [][AcceptedCompute
          => LET error == Sub(Setpoint, Input)
                 dInput == Sub(Input, pid.lastInput)
                 pOnM == IF pid.pOnE THEN D(0) ELSE Mul(pid.kp, dInput)
                 pOnE == IF pid.pOnE THEN Mul(pid.kp, error) ELSE D(0)
                 sum == Limited(Sub(Add(pid.outputSum, Mul(pid.ki, error)), pOnM),
                                pid.outMin, pid.outMax)
             IN  /\ pid'.outputSum = sum
                 /\ Output' = Limited(Sub(Add(pOnE, sum), Mul(pid.kd, dInput)),
                                      pid.outMin, pid.outMax)
                 /\ C14_Example]_vars

\* a computation in P_ON_E whose proportional term moved the output off the sum, with
\* neither of them at a limit
C14_Witness ==
    /\ call.op = "PID_Compute" /\ call.ret
    /\ pid.pOnE /\ Gt(pid.kp, D(0)) /\ Input # Setpoint
    /\ Lt(pid.outMin, pid.outputSum) /\ Lt(pid.outputSum, pid.outMax)
    /\ Lt(pid.outMin, Output) /\ Lt(Output, pid.outMax)
    /\ Output = Add(pid.outputSum, Mul(pid.kp, Sub(Setpoint, Input)))

RAbs(x) == IF Lt(x, D(0)) THEN Neg(x) ELSE x

SameSign(x, y) == (Lt(x, D(0)) <=> Lt(y, D(0))) /\ (Gt(x, D(0)) <=> Gt(y, D(0)))

\* after the step the active gains are those PID_SetTunings derives from the gains shown
\* at the sample period T, with the signs they had
GainsRederived(T) ==
    /\ pid'.SampleTime = T
    /\ pid'.kp = pid.kp
    /\ RAbs(pid'.kp) = PID_GetKp(pid')
    /\ RAbs(pid'.ki) = Mul(PID_GetKi(pid'), Div(D(T), D(1000)))
    /\ RAbs(pid'.kd) = Div(PID_GetKd(pid'), Div(D(T), D(1000)))
    /\ SameSign(pid'.ki, pid.ki) /\ SameSign(pid'.kd, pid.kd)

\* C16 as stated: after any accepted PID_SetSampleTime(T) the active gains are those
\* PID_SetTunings(dispKp, dispKi, dispKd) derives at the sample period T
C16_Original ==
    [][(IsCall("PID_SetSampleTime") /\ ~Rejected') => GainsRederived(call'.args[1])]_vars

(* C16: PID_SetSampleTime preserves the gains per second: after construction *)
(* with non-negative gains, after any accepted PID_SetSampleTime(T), T > 0,  *)
(* in any sequence of them, SampleTime is T, kp is unchanged, and ki and kd  *)
(* are what PID_SetTunings(dispKp, dispKi, dispKd) derives at the sample     *)
(* period T with the signs they had: |ki| = dispKi * T/1000 and              *)
(* |kd| = dispKd * 1000/T.                                                   *)
C16_SampleTimePreservesGains ==
    [][(IsCall("PID_SetSampleTime") /\ ~Rejected' /\ ctor.gainsOk)
          => GainsRederived(call'.args[1])]_vars

\* the sample time went to 200 in reverse direction: Ki = 10 is active as -2 and
\* Kd = 0.3 as -1.5
C16_Witness ==
    /\ call.op = "PID_SetSampleTime" /\ ~Rejected
    /\ ctor.gainsOk
    /\ pid.SampleTime = 200
    /\ PID_GetKi(pid) = D(10) /\ pid.ki = D(-2)
    /\ PID_GetKd(pid) = Rat(3, 10) /\ pid.kd = Rat(-3, 2)

\* limits (0, 50) set in automatic mode with the output cell and the accumulator at 100:
\* both end at 50
C17_Example ==
    LET p == Example(D(1), D(0), D(0), D(100))
        r == PID_SetOutputLimits(p, D(100), D(0), D(50))
    IN  /\ p.outputSum = D(100)
        /\ r.Output = D(50) /\ r.pid.outputSum = D(50)

(* C17: an accepted PID_SetOutputLimits(min, max) stores the bounds; in      *)
(* automatic mode it sets the output cell to clamp(output, min, max) and     *)
(* outputSum to clamp(outputSum, min, max), in manual mode it leaves both    *)
(* as they are; in the worked example both end at 50.                        *)
C17_LimitChange ==
    [][(IsCall("PID_SetOutputLimits") /\ ~Rejected')
          => LET min == call'.args[1]
                 max == call'.args[2]
             IN  /\ pid'.outMin = min /\ pid'.outMax = max
                 /\ pid.inAuto => /\ Output' = Limited(Output, min, max)
                                  /\ pid'.outputSum = Limited(pid.outputSum, min, max)
                 /\ ~pid.inAuto => /\ Output' = Output
                                   /\ pid'.outputSum = pid.outputSum
                 /\ C17_Example]_vars

\* limits narrowed in automatic mode, with the output cell and outputSum both brought
\* down to the new upper limit
C17_Witness ==
    /\ call.op = "PID_SetOutputLimits" /\ ~Rejected
    /\ call.args = <<D(50), D(200)>>
    /\ pid.inAuto
    /\ Output = D(200)
    /\ pid.outputSum = D(200)

(* C18: on a clock that does not wrap, of any two successive PID_Compute    *)
(* calls that return true, whatever is called in between, the later one     *)
(* reads a clock value at least the SampleTime then in force above the one  *)
(* the earlier read.                                                        *)
C18_MinimumInterval ==
    [][(AcceptedCompute /\ prev.okAt >= 0)
          => millis - prev.okAt >= pid.SampleTime]_vars

\* two calls have returned true, the later one under a sample time changed to 50
C18_Witness ==
    /\ call.op = "PID_Compute" /\ call.ret
    /\ prev.accepted /\ prev.ret
    /\ prev.okAt = millis /\ millis > ctor.t0
    /\ pid.SampleTime = 50

(* C19: in every reachable state in which the controller is in automatic    *)
(* mode, also before the first accepted computation after the switch and    *)
(* after any limit change or tuning change, outputSum lies in               *)
(* [outMin, outMax].                                                        *)
C19_SumWithinLimitsInAutomatic ==
    pid.inAuto => WithinLimits(pid.outputSum)

\* automatic mode, the limits raised above outputSum and the gains set since: outputSum
\* sits on the new lower limit
C19_Witness ==
    /\ pid.inAuto
    /\ call.op = "PID_SetTunings" /\ ~Rejected
    /\ pid.outMin = D(50)
    /\ pid.outputSum = pid.outMin
    /\ Lt(Output, pid.outMin) \/ Gt(Output, pid.outMax)

\* a computation is due: PID_Compute, if called now, returns true
ComputeIsDue == pid.inAuto /\ TimeDue(pid, millis)

\* PID_Compute "should be called every time void loop() executes": the clock keeps
\* advancing, and the loop turns many times in every stretch of time in which a
\* computation is due.  So the calls are strongly fair: if a computation is due again
\* and again, a call that returns true is made again and again.
SpecFair ==
    /\ InitOf(FairEnv)
    /\ [][NextOf(FairEnv)]_vars
    /\ WF_vars(\E d \in FairEnv.TickSteps : Tick(FairEnv, d))
    /\ ([]<>ComputeIsDue => []<><<AcceptedCompute>>_vars)

====
